---- MODULE Spec2Model ----
(***************************************************************************)
(* A model of the UPFH front-desk assistant (bot/chatbot.py):              *)
(*   - chat(): one conversational turn with at most one tool round,        *)
(*   - _handle_tool_call(): the tool router,                               *)
(*   - check_calendar_availability(): free-slot scan against the calendar, *)
(*   - backend/calendar_tools.py available_slots(): the 30-minute slots,   *)
(*   - create_calendar_event() and backend/calendar_tools.py               *)
(*     book_calendar_event(): the two booking operations,                  *)
(*   - estimate_fee() with _norm_proc(): the sliding-fee quote,            *)
(*   - backend/main.py voice(): the per-call sessions of the /voice route. *)
(* Time of day is in minutes since local midnight, a calendar date is a    *)
(* day ordinal.                                                            *)
(***************************************************************************)
EXTENDS Integers, Sequences, FiniteSets, TLC

VARIABLES
    pc,          \* position of chat(): idle, round1, executing, round2, ready, failed
    msgs,        \* chat(): the transcript `msgs`
    modelCalls,  \* every openai.chat.completions.create call of the turn, in order
    finish1,     \* finish_reason of the round-1 response ("" before it arrives)
    asst,        \* the round-1 response message `msg`
    results,     \* _handle_tool_call(): the list `results`
    invoked,     \* the component functions the router has called, in order
    failedRound, \* the round whose model call raised (0: none)
    outcome,     \* what chat() returned or raised
    calendar,    \* the busy intervals the calendar holds
    req,         \* arguments of the last check_calendar_availability call
    fetchLog,    \* freebusy queries issued by that call, in order
    availOut,    \* what that call returned or raised
    slotsReq,    \* arguments of the last calendar_tools.available_slots call
    slotsOut,    \* what that call fetched and what it returned or raised
    events,      \* the events inserted into the calendar, in order
    mailLog,     \* the e-mails handed to Gmail, in order
    bookLog,     \* the booking calls made, in order, with what each returned
    seen,        \* per caller: the slots their last availability check reported
    feeIn,       \* arguments of the estimate_fee call
    feeOut,      \* what that call returned
    sessions,    \* main.py 110: the `sessions` map of the /voice route
    turns,       \* the /voice requests received, in order, with their progress
    lastSid      \* the session key of the request that took the latest step

chatVars  == <<pc, msgs, modelCalls, finish1, asst, results, invoked, failedRound, outcome>>
availVars == <<calendar, req, fetchLog, availOut, slotsReq, slotsOut>>
bookVars  == <<events, mailLog, bookLog, seen>>
feeVars   == <<feeIn, feeOut>>
voiceVars == <<sessions, turns, lastSid>>
vars      == <<pc, msgs, modelCalls, finish1, asst, results, invoked, failedRound, outcome,
               calendar, req, fetchLog, availOut, slotsReq, slotsOut,
               events, mailLog, bookLog, seen, feeIn, feeOut, sessions, turns, lastSid>>

(***************************************************************************)
(* Bounds of the model.                                                    *)
(***************************************************************************)
MaxCalls == 2       \* tool calls the model requests in one round
MaxBusy  == 2       \* busy intervals the calendar holds

(***************************************************************************)
(* The booking operations: create_calendar_event (bot/chatbot.py) and      *)
(* book_calendar_event (backend/calendar_tools.py).  An instant is a pair  *)
(* <<day, minute>>; a returned dict is a record, its keys the fields.      *)
(***************************************************************************)
\* 193-200: the arguments of create_calendar_event
BookingRequest(patient_name, start, end, email, phone, reason) ==
    [patient_name |-> patient_name, start |-> start, end |-> end,
     email |-> email, phone |-> phone, reason |-> reason]

NoId == <<>>

\* 207-214: the event body.  It names no id, so the provider issues one.
\* (faulty variant: the body carries an id derived from the request)
EventBodyKeyed(r) ==
    [id |-> <<"req", r.patient_name, r.start, r.end>>,
     summary |-> r.patient_name, description |-> <<r.reason, r.phone, r.email>>,
     start |-> r.start, end |-> r.end,
     attendees |-> IF r.email # "" THEN {r.email} ELSE {}]
EventBody(r) ==
    [id |-> NoId,
     summary |-> r.patient_name, description |-> <<r.reason, r.phone, r.email>>,
     start |-> r.start, end |-> r.end,
     attendees |-> IF r.email # "" THEN {r.email} ELSE {}]

\* calendar_tools 106-112: the event body of book_calendar_event
BookBody(r) ==
    [id |-> NoId,
     summary |-> r.patient_name, description |-> <<r.email, r.reason>>,
     start |-> r.start, end |-> r.end,
     attendees |-> {r.email}]

\* events().insert(...).execute() at the provider: a body whose id is
\* already taken is refused, a body without id gets a fresh one
InsertRefused(evs, body) ==
    body.id # NoId /\ \E i \in 1..Len(evs) : evs[i].id = body.id
\* the stored event, which is also the insert response `created`; `by` records
\* the call that inserted it
Created(evs, body, link, by) ==
    [id |-> IF body.id = NoId THEN <<"gcal", Len(evs) + 1>> ELSE body.id,
     htmlLink |-> link,
     summary |-> body.summary, description |-> body.description,
     start |-> body.start, end |-> body.end, attendees |-> body.attendees,
     by |-> by]

\* what the calendar client does for one booking call: the client cannot be
\* built, the insert is answered with an HTTP error, or the insert succeeds
Gateway == {"service_error", "http_error", "ok"}
\* the htmlLink of an insert response ("": the response has none)
ProviderLinks == {"", "https://calendar.example/event"}

Raise(exc)  == [kind |-> "raise", error |-> exc]
Return(val) == [kind |-> "return", value |-> val]

\* names bound while the return value of create_calendar_event is evaluated:
\* the parameters (194-199) and the locals svc, evt, created (206-219); the
\* module binds no name preferred_date
CreateBound ==
    {"patient_name", "start", "end", "email", "phone", "reason", "svc", "evt", "created"}
\* 223-233: the names the returned dict display evaluates, in order
CreateReturnNames ==
    <<"created", "start", "end", "email", "patient_name", "phone", "reason",
      "preferred_date">>

\* 223-233: the result of create_calendar_event once the insert has answered
\* with `created`: evaluating an unbound name raises NameError
CreateResult(r, created) ==
    IF \E i \in 1..Len(CreateReturnNames) : CreateReturnNames[i] \notin CreateBound
    THEN Raise("NameError")
    ELSE Return([status |-> "booked", event_id |-> created.id,
                 start |-> r.start, end |-> r.end, email |-> r.email,
                 patient_name |-> r.patient_name, phone |-> r.phone,
                 reason |-> r.reason, preferred_date |-> r.start[1]])

\* calendar_tools 113-126: the result of book_calendar_event; only HttpError
\* is caught
BookResult(r, gw, created) ==
    CASE gw = "ok" ->
            Return([status |-> "booked", start_iso |-> r.start, end_iso |-> r.end,
                    htmlLink |-> created.htmlLink])
      [] gw = "http_error" -> Return([error |-> "HttpError"])
      [] OTHER -> Raise("Exception")

\* the arguments the language model passes when it books
GoodBooking ==
    BookingRequest("Ana", <<1, 480>>, <<1, 510>>, "ana@example.org", "555-0100", "checkup")

(***************************************************************************)
(* Messages and tool calls.                                                *)
(***************************************************************************)
SYSTEM_PROMPT  == "SYSTEM_PROMPT"
WELCOME_BUBBLE == "WELCOME_BUBBLE"

Msg(role, content) ==
    [role |-> role, content |-> content, tool_call_id |-> "", tool_calls |-> <<>>]

\* chatbot.py 636-652: the names the router dispatches on
ToolNames ==
    {"upfh_location_lookup", "upfh_site_search", "upfh_site_summary",
     "list_upfh_services", "estimate_fee", "check_calendar_availability",
     "create_calendar_event", "submit_appointment_request"}


\* chat() 670-674: a history item is a (user, assistant) pair, a message dict,
\* or something else (skipped); "" stands for None or an empty string
PairTurn(u, a) == [kind |-> "pair", u |-> u, a |-> a, role |-> "", content |-> ""]
DictTurn(role, content) == [kind |-> "dict", u |-> "", a |-> "", role |-> role, content |-> content]
OtherTurn == [kind |-> "other", u |-> "", a |-> "", role |-> "", content |-> ""]

TurnMsgs(turn) ==
    IF turn.kind = "pair"
    THEN (IF turn.u # "" THEN <<Msg("user", turn.u)>> ELSE <<>>)
         \o (IF turn.a # "" THEN <<Msg("assistant", turn.a)>> ELSE <<>>)
    ELSE IF turn.kind = "dict" THEN <<Msg(turn.role, turn.content)>>
    ELSE <<>>

RECURSIVE HistoryMsgs(_)
HistoryMsgs(history) ==
    IF history = <<>> THEN <<>>
    ELSE TurnMsgs(Head(history)) \o HistoryMsgs(Tail(history))

\* chat() 666-675
BuildTranscript(user_input, history) ==
    <<Msg("system", SYSTEM_PROMPT)>>
    \o (IF history = <<>> THEN <<Msg("assistant", WELCOME_BUBBLE)>> ELSE <<>>)
    \o HistoryMsgs(history)
    \o <<Msg("user", user_input)>>

\* chat() 680: only this finish reason opens the tool round
\* (faulty variant: every response opens a tool round)
NeedsToolRoundAlways(reason) == TRUE
NeedsToolRound(reason) == reason = "tool_calls"

\* chat() 677 and 683: round 1 offers TOOLS, round 2 passes no `tools`
OffersTools(round) == round = 1

ModelCall(round, transcript) ==
    [round |-> round, tools |-> OffersTools(round), transcript |-> transcript]

\* _handle_tool_call 631-634: `arguments or "{}"`, then json.loads; a parse
\* failure is logged and leaves args = {}.  A raw payload is "empty" (None, ""
\* or "{}"), "good" (an object with the tool's arguments), "malformed" (not
\* JSON) or "nonobject" (JSON, but not an object).
\* (faulty variant: a payload that does not parse is passed on as it is)
ParseArgsKeepsRaw(raw) ==
    CASE raw = "empty"     -> "EMPTY"
      [] raw = "good"      -> "GOOD"
      [] OTHER             -> "NONOBJ"
ParseArgs(raw) ==
    CASE raw = "empty"     -> "EMPTY"
      [] raw = "good"      -> "GOOD"
      [] raw = "malformed" -> "EMPTY"
      [] OTHER             -> "NONOBJ"

\* _handle_tool_call 636-654: the if/elif chain reaches a component only for
\* the eight known names; the final else builds the unknown-tool payload
\* (faulty variant: an unknown name reaches a component too)
DispatchesAnything(fn) == TRUE
Dispatches(fn) == fn \in ToolNames

\* whether create_calendar_event can return at all once the insert answered
CreateReturns ==
    CreateResult(GoodBooking, Created(<<>>, EventBody(GoodBooking), "", "")).kind = "return"

\* What the component called as fn(**args) can do: return ("ok") or raise.
\*   list_upfh_services() takes no arguments (643);
\*   `**args` of a non-mapping raises TypeError, send_appt_email(args) of a
\*   non-dict raises AttributeError (693);
\*   with args = {} every function with a required parameter raises TypeError,
\*   check_calendar_availability() raises ValueError (147), send_appt_email({})
\*   returns at once (694-695);
\*   create_calendar_event returns only what CreateResult returns: line 232
\*   evaluates the unbound name preferred_date, so it raises even when the
\*   insert succeeded.
ComponentOutcomes(fn, args) ==
    CASE fn = "list_upfh_services" -> {"ok"}
      [] fn # "list_upfh_services" /\ args = "NONOBJ" -> {"raise"}
      [] fn # "list_upfh_services" /\ args = "EMPTY" ->
            IF fn = "submit_appointment_request" THEN {"ok"} ELSE {"raise"}
      [] OTHER ->
            CASE fn \in {"upfh_location_lookup", "estimate_fee"} -> {"ok"}
              [] fn = "create_calendar_event" ->
                    IF CreateReturns THEN {"ok", "raise"} ELSE {"raise"}
              [] OTHER -> {"ok", "raise"}

\* What the call did to the calendar and the mailbox before it returned or
\* raised:
\*   create_calendar_event inserts at 215-219; it returns only after the
\*   insert, and it raises either before the insert answered (206, 215-219)
\*   or after it (232);
\*   send_appt_email hands the patient copy (719) and then the staff alert
\*   (720) to Gmail; it returns after both and raises at either.
ComponentEffects(fn, args, out) ==
    CASE fn = "create_calendar_event" /\ args = "GOOD" ->
            IF out = "ok" THEN {[inserted |-> TRUE, mails |-> 0]}
            ELSE {[inserted |-> b, mails |-> 0] :
                    b \in IF CreateReturns THEN {FALSE} ELSE {FALSE, TRUE}}
      [] fn = "submit_appointment_request" /\ args = "GOOD" ->
            IF out = "ok" THEN {[inserted |-> FALSE, mails |-> 2]}
            ELSE {[inserted |-> FALSE, mails |-> m] : m \in {0, 1}}
      [] OTHER -> {[inserted |-> FALSE, mails |-> 0]}

\* send_appt_email 719-720: the two messages of one request, in sending order
AppointmentMails(by) ==
    <<[to |-> "patient", subject |-> "We received your appointment request", by |-> by],
      [to |-> "staff", subject |-> "NEW appointment request", by |-> by]>>

ErrorPayload    == "{error: exception}"
UnknownPayload  == "{error: unknown tool}"
SubmittedPayload == "{status: submitted}"
ResultPayload   == "{result}"

\* _handle_tool_call 635-657: the value `res` of one call
CallResult(fn, out) ==
    CASE out = "unknown" -> UnknownPayload
      [] out = "raise"   -> ErrorPayload
      [] out = "ok" /\ fn = "submit_appointment_request" -> SubmittedPayload
      [] OTHER -> ResultPayload

\* _handle_tool_call 658-659
\* (faulty variant: the tool message carries no call identifier)
ToolMsgUntagged(call, res) ==
    [role |-> "tool", content |-> res, tool_call_id |-> "", tool_calls |-> <<>>]
ToolMsg(call, res) ==
    [role |-> "tool", content |-> res, tool_call_id |-> call.id, tool_calls |-> <<>>]

\* chat() 677-686: a raising model call propagates out of chat()
\* (faulty variant: the exception is swallowed and an empty answer returned)
ModelFailureSwallowed(round) ==
    [pc |-> "ready", outcome |-> [kind |-> "text", val |-> ""]]
ModelFailure(round) ==
    [pc |-> "failed", outcome |-> [kind |-> "error", val |-> "GatewayFailure"]]

(***************************************************************************)
(* Inputs of the turn model.                                               *)
(***************************************************************************)
UserInputs == {"u1"}
Histories ==
    { <<>>,
      <<PairTurn("", WELCOME_BUBBLE)>>,
      <<PairTurn("hi", "hello"), OtherTurn>>,
      <<DictTurn("system", "VOICE_SYSTEM_PROMPT"), DictTurn("user", "u1")>> }
FinishReasons == {"stop", "tool_calls", "length"}
Texts == {"answer"}

\* (name, raw arguments) of the tool calls the language model may request
RequestedTools ==
    { <<"upfh_location_lookup", "good">>, <<"upfh_location_lookup", "malformed">>,
      <<"list_upfh_services", "malformed">>, <<"estimate_fee", "nonobject">>,
      <<"upfh_site_search", "good">>, <<"upfh_site_summary", "empty">>,
      <<"check_calendar_availability", "good">>,
      <<"create_calendar_event", "good">>,
      <<"submit_appointment_request", "good">>,
      <<"submit_appointment_request", "malformed">>,
      <<"no_such_tool", "good">> }

CallIds == <<"call_a", "call_b", "call_c", "call_d">>

\* the provider gives every call of a response its own identifier
CallLists ==
    UNION { { [i \in 1..n |-> [id |-> CallIds[IF up THEN i ELSE n + 1 - i],
                               fn |-> f[i][1], raw |-> f[i][2]]]
              : f \in [1..n -> RequestedTools], up \in BOOLEAN }
            : n \in 0..MaxCalls }

NoMsg == Msg("", "")
NoOutcome == [kind |-> "none", val |-> ""]

InitChat ==
    /\ pc = "idle"
    /\ msgs = <<>>
    /\ modelCalls = <<>>
    /\ finish1 = ""
    /\ asst = NoMsg
    /\ results = <<>>
    /\ invoked = <<>>
    /\ failedRound = 0
    /\ outcome = NoOutcome

(***************************************************************************)
(* chat(): one turn.                                                       *)
(***************************************************************************)
\* 666-677: assemble the transcript and issue the round-1 call
ChatStart ==
    /\ pc = "idle"
    /\ \E u \in UserInputs, h \in Histories :
          LET t == BuildTranscript(u, h) IN
          /\ msgs' = t
          /\ modelCalls' = <<ModelCall(1, t)>>
    /\ pc' = "round1"
    /\ UNCHANGED <<finish1, asst, results, invoked, failedRound, outcome>>
    /\ UNCHANGED <<availVars, bookVars, feeVars, voiceVars>>

\* 677: the round-1 call raises
Round1Error ==
    /\ pc = "round1"
    /\ failedRound' = 1
    /\ pc' = ModelFailure(1).pc
    /\ outcome' = ModelFailure(1).outcome
    /\ UNCHANGED <<msgs, modelCalls, finish1, asst, results, invoked>>
    /\ UNCHANGED <<availVars, bookVars, feeVars, voiceVars>>

\* 678-680, 686: a response that opens no tool round; its content is returned
Round1Direct ==
    /\ pc = "round1"
    /\ \E reason \in FinishReasons, text \in Texts :
          /\ ~NeedsToolRound(reason)
          /\ finish1' = reason
          /\ asst' = Msg("assistant", text)
          /\ outcome' = [kind |-> "text", val |-> text]
    /\ pc' = "ready"
    /\ UNCHANGED <<msgs, modelCalls, results, invoked, failedRound>>
    /\ UNCHANGED <<availVars, bookVars, feeVars, voiceVars>>

\* 678-681: a response that requests tool calls; _handle_tool_call starts
Round1ToolCalls ==
    /\ pc = "round1"
    /\ \E reason \in FinishReasons, calls \in CallLists :
          /\ NeedsToolRound(reason)
          \* a response with another finish reason carries no tool calls
          /\ reason = "tool_calls" \/ calls = <<>>
          /\ finish1' = reason
          /\ asst' = [role |-> "assistant", content |-> "", tool_call_id |-> "",
                      tool_calls |-> calls]
    /\ pc' = "executing"
    /\ UNCHANGED <<msgs, modelCalls, results, invoked, failedRound, outcome>>
    /\ UNCHANGED <<availVars, bookVars, feeVars, voiceVars>>

\* 630-659: one iteration of the router's loop
HandleToolCall ==
    /\ pc = "executing"
    /\ Len(results) < Len(asst.tool_calls)
    /\ LET call == asst.tool_calls[Len(results) + 1]
           args == ParseArgs(call.raw)
       IN  IF Dispatches(call.fn)
           THEN \E out \in ComponentOutcomes(call.fn, args) :
                \E eff \in ComponentEffects(call.fn, args, out) :
                \E link \in IF eff.inserted THEN ProviderLinks ELSE {""} :
                   /\ invoked' = Append(invoked,
                         [id |-> call.id, fn |-> call.fn, args |-> args,
                          raised |-> (out = "raise")])
                   /\ results' = Append(results, ToolMsg(call, CallResult(call.fn, out)))
                   /\ events' = IF eff.inserted
                                THEN Append(events,
                                       Created(events, EventBody(GoodBooking), link, call.id))
                                ELSE events
                   /\ mailLog' = mailLog \o SubSeq(AppointmentMails(call.id), 1, eff.mails)
           ELSE /\ invoked' = invoked
                /\ results' = Append(results, ToolMsg(call, CallResult(call.fn, "unknown")))
                /\ UNCHANGED <<events, mailLog>>
    /\ UNCHANGED <<pc, msgs, modelCalls, finish1, asst, failedRound, outcome>>
    /\ UNCHANGED <<availVars, bookLog, seen, feeVars, voiceVars>>

\* 682-683: fold the tool round into the transcript, issue the round-2 call
Finalize ==
    /\ pc = "executing"
    /\ Len(results) = Len(asst.tool_calls)
    /\ msgs' = msgs \o <<asst>> \o results
    /\ modelCalls' = Append(modelCalls, ModelCall(2, msgs'))
    /\ pc' = "round2"
    /\ UNCHANGED <<finish1, asst, results, invoked, failedRound, outcome>>
    /\ UNCHANGED <<availVars, bookVars, feeVars, voiceVars>>

\* 683: the round-2 call raises
Round2Error ==
    /\ pc = "round2"
    /\ failedRound' = 2
    /\ pc' = ModelFailure(2).pc
    /\ outcome' = ModelFailure(2).outcome
    /\ UNCHANGED <<msgs, modelCalls, finish1, asst, results, invoked>>
    /\ UNCHANGED <<availVars, bookVars, feeVars, voiceVars>>

\* 684-686: the round-2 content is the turn's answer, whatever its finish reason
Round2Return ==
    /\ pc = "round2"
    /\ \E text \in Texts : outcome' = [kind |-> "text", val |-> text]
    /\ pc' = "ready"
    /\ UNCHANGED <<msgs, modelCalls, finish1, asst, results, invoked, failedRound>>
    /\ UNCHANGED <<availVars, bookVars, feeVars, voiceVars>>


(***************************************************************************)
(* check_calendar_availability.                                            *)
(***************************************************************************)
\* an optional date argument: absent (None), the empty string, or a date
NoDate    == [k |-> "none",  d |-> 0]
EmptyDate == [k |-> "empty", d |-> 0]
Day(d)    == [k |-> "day",   d |-> d]

\* Python truthiness of an optional string argument
Truthy(x) == x.k = "day"

ScanStep        == 15     \* 179: step
MaxSlotsPerDay  == 10     \* 187: slots[:10]
MaxRangeDays    == 30     \* 157
DefaultDuration == 30     \* 137
DefaultWorkStart == 480   \* 138: "08:00"
DefaultWorkEnd   == 1050  \* 139: "17:30"

\* 146-149: the two shape checks; "" when the request passes both
\* (faulty variant: only the request without any date argument is rejected)
ShapeErrorLax(r) ==
    IF ~Truthy(r.date) /\ ~Truthy(r.start_date) /\ ~Truthy(r.end_date)
    THEN "Pass date OR (start_date and end_date)."
    ELSE ""
ShapeError(r) ==
    IF Truthy(r.date) = (Truthy(r.start_date) \/ Truthy(r.end_date))
    THEN "Pass date OR (start_date and end_date)."
    ELSE IF (Truthy(r.start_date) /\ ~Truthy(r.end_date))
            \/ (Truthy(r.end_date) /\ ~Truthy(r.start_date))
    THEN "Both start_date and end_date are required."
    ELSE ""

\* 157: the range check, for a request that passed the shape checks
\* (faulty variant: the limit is off by one day)
BadRangeOffByOne(s, e) == e < s \/ e - s > MaxRangeDays + 1
BadRange(s, e) == e < s \/ e - s > MaxRangeDays

\* 126-130: _iter_days
RECURSIVE IterDays(_, _)
IterDays(cur, end) ==
    IF cur <= end THEN <<cur>> \o IterDays(cur + 1, end) ELSE <<>>

\* 152-159: the days of a request that passed validation
\* (faulty variant: of a range only the first day is taken)
DaysOfFirstOnly(r) ==
    IF Truthy(r.date) THEN <<r.date.d>>
    ELSE <<r.start_date.d>>
DaysOf(r) ==
    IF Truthy(r.date) THEN <<r.date.d>>
    ELSE IterDays(r.start_date.d, r.end_date.d)

\* 183: the overlap test of one candidate against the busy list
\* (faulty variant: only a slot whose start lies in a busy interval overlaps)
OverlapsStartOnly(s, s_end, busy) ==
    \E b \in busy : b[1] <= s /\ s < b[2]
Overlaps(s, s_end, busy) ==
    \E b \in busy : b[1] < s_end /\ s < b[2]

\* 181: the loop condition
\* (faulty variant: the slot need only start before the window ends)
FitsBeforeStart(cursor, span, close) == cursor <= close
Fits(cursor, span, close) == cursor + span <= close

\* 178-185: the scan loop of one day
RECURSIVE Scan(_, _, _, _)
Scan(cursor, close, span, busy) ==
    IF Fits(cursor, span, close)
    THEN (IF ~Overlaps(cursor, cursor + span, busy) THEN <<cursor>> ELSE <<>>)
         \o Scan(cursor + ScanStep, close, span, busy)
    ELSE <<>>

\* 187: slots[:10]
\* (faulty variant: the last ten slots are kept)
TruncateLast(slots) ==
    SubSeq(slots, IF Len(slots) > MaxSlotsPerDay THEN Len(slots) - MaxSlotsPerDay + 1 ELSE 1,
           Len(slots))
Truncate(slots) ==
    SubSeq(slots, 1, IF Len(slots) > MaxSlotsPerDay THEN MaxSlotsPerDay ELSE Len(slots))

\* 186: a day gets a key only when it has a slot
\* (faulty variant: every day gets a key)
KeepsAllDays(slots) == TRUE
KeepsDay(slots) == slots # <<>>

\* 174-176: the busy list of one freebusy query, as (start, end) pairs
BusyOn(cal, d) == { <<b.b0, b.b1>> : b \in { x \in cal : x.day = d } }

\* 164-189: free_by_day, from the fetched busy lists
FreeByDay(r, fetches) ==
    LET slotsOf(i) == Scan(r.work_start, r.work_end, r.duration_minutes, fetches[i].busy)
        kept == { i \in 1..Len(fetches) : KeepsDay(slotsOf(i)) }
    IN  [d \in { fetches[i].day : i \in kept } |->
            Truncate(slotsOf(CHOOSE i \in kept : fetches[i].day = d))]

(***************************************************************************)
(* Inputs of the availability model.                                       *)
(***************************************************************************)
Durations      == {-30, 0, 30, 40, 570, 600}
RangeDurations == {0, 30, 600}
Windows        == { <<DefaultWorkStart, DefaultWorkEnd>>, <<DefaultWorkStart, 540>> }
DefaultWindow  == <<DefaultWorkStart, DefaultWorkEnd>>

Args(date, start_date, end_date, duration_minutes, window) ==
    [date |-> date, start_date |-> start_date, end_date |-> end_date,
     duration_minutes |-> duration_minutes, window |-> window]

\* one date, every duration and window
SingleRequests ==
    { Args(Day(d), x, x, dur, w) :
        d \in {0, 1}, x \in {NoDate, EmptyDate}, dur \in Durations, w \in Windows }
\* a range from day 1: backwards, one day, short, 30, 31 and more days long
RangeRequests ==
    { Args(NoDate, Day(1), Day(e), dur, w) : e \in {0, 1, 2}, dur \in Durations, w \in Windows }
    \cup { Args(x, Day(1), Day(e), dur, DefaultWindow) :
              x \in {NoDate, EmptyDate}, e \in {31, 32, 33}, dur \in RangeDurations }
\* every combination of absent, empty and given date arguments
ShapeRequests ==
    { Args(date, s, e, DefaultDuration, DefaultWindow) :
        date \in {NoDate, EmptyDate, Day(1)},
        s \in {NoDate, EmptyDate, Day(1)},
        e \in {NoDate, EmptyDate, Day(0), Day(2)} }

Requests == SingleRequests \cup RangeRequests \cup ShapeRequests

Request(a) ==
    [date |-> a.date, start_date |-> a.start_date, end_date |-> a.end_date,
     duration_minutes |-> a.duration_minutes,
     work_start |-> a.window[1], work_end |-> a.window[2]]

Busy(d, b0, b1) == [day |-> d, b0 |-> b0, b1 |-> b1]
BusyUniverse ==
    { Busy(0, 480, 1050), Busy(1, 480, 510), Busy(1, 500, 505), Busy(1, 525, 600),
      Busy(2, 0, 1440) }
Calendars == { c \in SUBSET BusyUniverse : Cardinality(c) <= MaxBusy }

\* what a freebusy query sees: the intervals the calendar held at the start
\* and those of the events inserted since
Holdings(cal, evs) ==
    cal \cup { Busy(evs[i].start[1], evs[i].start[2], evs[i].end[2]) : i \in 1..Len(evs) }

NoRequest ==
    [date |-> NoDate, start_date |-> NoDate, end_date |-> NoDate,
     duration_minutes |-> DefaultDuration,
     work_start |-> DefaultWorkStart, work_end |-> DefaultWorkEnd]
NoAvailOut == [status |-> "none", error |-> "", free |-> <<>>]

(***************************************************************************)
(* backend/calendar_tools.py available_slots.  The slots and the busy      *)
(* blocks are naive datetimes: an instant <<day, minute>>, compared as     *)
(* datetimes are.                                                          *)
(***************************************************************************)
SLOT      == 30     \* calendar_tools.py 41: _SLOT
DayOpens  == 480    \* 44: 08:00
DayCloses == 1050   \* 45: 17:30

\* datetime < and <=
Before(a, b)   == a[1] < b[1] \/ (a[1] = b[1] /\ a[2] < b[2])
NotAfter(a, b) == ~Before(b, a)

\* 43-50: _day_slots, the slot starts of one day
RECURSIVE SlotStarts(_, _)
SlotStarts(start, end) ==
    IF start + SLOT <= end THEN <<start>> \o SlotStarts(start + SLOT, end) ELSE <<>>
DaySlots(date) ==
    LET out == SlotStarts(DayOpens, DayCloses) IN [i \in 1..Len(out) |-> <<date, out[i]>>]

\* 52-64: _busy_blocks, one freebusy query for the whole range; an HttpError
\* is logged and the empty list returned
BusyBlocks(cal, date_from, date_to, fetch) ==
    IF fetch = "HttpError" THEN {}
    ELSE { b \in cal : date_from <= b.day /\ b.day <= date_to }

\* 79-82: all_days
AllDays(d0, d1) == [i \in 1..(d1 - d0 + 1) |-> d0 + (i - 1)]

\* 85-87: busy_pts
BusyPts(busy_raw) == { <<<<b.day, b.b0>>, <<b.day, b.b1>>>> : b \in busy_raw }

\* 93: the test of one slot [s, e) against the busy blocks
SlotBlocked(s, e, busy_pts) ==
    \E b \in busy_pts :
        \/ NotAfter(b[1], s) /\ Before(s, b[2])
        \/ Before(b[1], e) /\ NotAfter(e, b[2])

\* 89-95: the slots that are kept, day by day
RECURSIVE SlotsOfDays(_)
SlotsOfDays(days) ==
    IF days = <<>> THEN <<>> ELSE DaySlots(Head(days)) \o SlotsOfDays(Tail(days))
FreeSlots(days, busy_pts) ==
    SelectSeq(SlotsOfDays(days),
              LAMBDA s : ~SlotBlocked(s, <<s[1], s[2] + SLOT>>, busy_pts))

SlotMinutes  == {15, 30}
SlotRequests ==
    [date_from : {0, 1, 2}, date_to : {0, 1, 2, 3}, slot_minutes : SlotMinutes]

NoSlotsReq == [date_from |-> 0, date_to |-> 0, slot_minutes |-> SLOT]
NoSlotsOut == [status |-> "none", fetch |-> "none", error |-> "", slots |-> <<>>]

InitAvail ==
    /\ req = NoRequest
    /\ fetchLog = <<>>
    /\ availOut = NoAvailOut
    /\ slotsReq = NoSlotsReq
    /\ slotsOut = NoSlotsOut

\* 133-189: one call (a run follows one call of one of the two availability
\* functions).  A request that fails validation raises ValueError
\* before the calendar client is built.  Otherwise the client is built (161;
\* failAt = -1: _calendar_service raises) and the days are queried in order;
\* the query number failAt raises, which propagates out of the call
\* (failAt = 0: none raises).
CheckAvailability ==
    /\ availOut.status = "none" /\ slotsOut.status = "none"
    /\ \E a \in Requests :
      LET r == Request(a) IN
      /\ req' = r
      /\ IF ShapeError(r) # ""
         THEN /\ fetchLog' = <<>>
              /\ availOut' = [status |-> "ValueError", error |-> ShapeError(r), free |-> <<>>]
         ELSE IF ~Truthy(r.date) /\ BadRange(r.start_date.d, r.end_date.d)
         THEN /\ fetchLog' = <<>>
              /\ availOut' = [status |-> "ValueError",
                              error |-> "Bad date range (max 30 days).", free |-> <<>>]
         ELSE LET days == DaysOf(r)
                  fetch(i, ok) == [day |-> days[i], ok |-> ok,
                                   busy |-> IF ok
                                            THEN BusyOn(Holdings(calendar, events), days[i])
                                            ELSE {}]
              IN  \E failAt \in -1..Len(days) :
                    IF failAt = -1
                    THEN /\ fetchLog' = <<>>
                         /\ availOut' = [status |-> "ServiceError", error |-> "", free |-> <<>>]
                    ELSE IF failAt = 0
                    THEN /\ fetchLog' = [i \in 1..Len(days) |-> fetch(i, TRUE)]
                         /\ availOut' = [status |-> "ok", error |-> "",
                                         free |-> FreeByDay(r, fetchLog')]
                    ELSE /\ fetchLog' = [i \in 1..failAt |-> fetch(i, i < failAt)]
                         /\ availOut' = [status |-> "GatewayFailure", error |-> "", free |-> <<>>]
      /\ UNCHANGED <<calendar, slotsReq, slotsOut>>
      /\ UNCHANGED <<chatVars, bookVars, feeVars, voiceVars>>

\* calendar_tools.py 69-97: one call of available_slots.  Another slot length
\* than 30 minutes returns the error dict (76-77).  Otherwise the busy blocks
\* are fetched (84): the query answers, or it raises HttpError, which
\* _busy_blocks turns into an empty list (62-64), or the client raises
\* something else, which leaves available_slots.
AvailableSlots ==
    /\ slotsOut.status = "none" /\ availOut.status = "none"
    /\ \E a \in SlotRequests :
          /\ slotsReq' = a
          /\ IF a.slot_minutes # 30
             THEN slotsOut' = [status |-> "error", fetch |-> "none",
                               error |-> "Only 30-minute slots supported", slots |-> <<>>]
             ELSE \E fetch \in {"ok", "HttpError", "raise"} :
                    IF fetch = "raise"
                    THEN slotsOut' = [status |-> "raise", fetch |-> fetch,
                                      error |-> "", slots |-> <<>>]
                    ELSE slotsOut' =
                           [status |-> "ok", fetch |-> fetch, error |-> "",
                            slots |-> FreeSlots(AllDays(a.date_from, a.date_to),
                                        BusyPts(BusyBlocks(Holdings(calendar, events),
                                                           a.date_from, a.date_to, fetch)))]
    /\ UNCHANGED <<calendar, req, fetchLog, availOut>>
    /\ UNCHANGED <<chatVars, bookVars, feeVars, voiceVars>>

(***************************************************************************)
(* Callers who check availability and book.                                *)
(***************************************************************************)
Callers == {"c1", "c2"}
MaxBookings == 2    \* booking calls in one run

\* the patient fields each caller books with: (name, email, phone, reason);
\* the second caller leaves the optional fields at their defaults (197-199)
PatientOf(c) ==
    IF c = "c1" THEN <<"Ana", "ana@example.org", "555-0100", "checkup">>
    ELSE <<"Bo", "", "", "">>
\* (start, end) of the slot callers ask to book: day 1, 08:00 to 08:30
BookableSlots == { <<<<1, 480>>, <<1, 510>>>> }
RequestOf(c, slot) ==
    BookingRequest(PatientOf(c)[1], slot[1], slot[2],
                   PatientOf(c)[2], PatientOf(c)[3], PatientOf(c)[4])

\* the availability request every caller makes: day 1 between 08:00 and 09:00
Probe == Request(Args(Day(1), NoDate, NoDate, DefaultDuration, <<DefaultWorkStart, 540>>))
BookingCalendars == { {}, {Busy(1, 525, 600)} }

NotChecked == [checked |-> FALSE, free |-> {}]

InitBook ==
    /\ events = <<>>
    /\ mailLog = <<>>
    /\ bookLog = <<>>
    /\ seen = [c \in Callers |-> NotChecked]

\* 206-215: the days create_calendar_event queries for busy intervals between
\* building the client and inserting: none
\* (faulty variant: the day of the requested start is queried and a taken slot
\* is refused)
CreateQueriesDay(r) == <<r.start[1]>>
CreateQueries(r) == <<>>

\* 133-189: a caller's availability check; when the fetch fails it raises and
\* the caller has no slots to choose from
CallerCheck ==
    /\ \E c \in Callers, ok \in BOOLEAN :
         LET days == DaysOf(Probe)
             fetches == [i \in 1..Len(days) |->
                           [day |-> days[i], ok |-> TRUE,
                            busy |-> BusyOn(Holdings(calendar, events), days[i])]]
             free == FreeByDay(Probe, fetches)
         IN  seen' = [seen EXCEPT ![c] =
                        IF ok
                        THEN [checked |-> TRUE,
                              free |-> UNION { { <<d, free[d][i]>> : i \in 1..Len(free[d]) }
                                               : d \in DOMAIN free }]
                        ELSE NotChecked]
    /\ UNCHANGED <<events, mailLog, bookLog>>
    /\ UNCHANGED <<chatVars, availVars, feeVars, voiceVars>>

\* chatbot.py 193-233: one call of create_calendar_event
CreateCalendarEvent ==
    /\ Len(bookLog) < MaxBookings
    /\ \E c \in Callers, slot \in BookableSlots, gw \in Gateway :
       \E link \in IF gw = "ok" THEN ProviderLinks ELSE {""} :
         LET r == RequestOf(c, slot)
             queried == IF gw = "service_error" THEN <<>> ELSE CreateQueries(r)
             busy == UNION { BusyOn(Holdings(calendar, events), queried[i])
                             : i \in 1..Len(queried) }
             taken == Overlaps(r.start[2], r.end[2], busy)
             body == EventBody(r)
             created == Created(events, body, link, c)
             inserts == gw = "ok" /\ ~taken /\ ~InsertRefused(events, body)
             out == IF gw = "service_error" THEN Raise("ServiceError")
                    ELSE IF taken THEN Raise("SlotTaken")
                    ELSE IF ~inserts THEN Raise("HttpError")
                    ELSE CreateResult(r, created)
         IN  /\ events' = IF inserts THEN Append(events, created) ELSE events
             /\ bookLog' = Append(bookLog,
                   [op |-> "create_calendar_event", by |-> c, req |-> r,
                    sawFree |-> r.start \in seen[c].free,
                    gateway |-> gw, queries |-> Len(queried), inserted |-> inserts,
                    event_id |-> IF inserts THEN created.id ELSE NoId,
                    link |-> link, out |-> out])
    /\ UNCHANGED <<mailLog, seen>>
    /\ UNCHANGED <<chatVars, availVars, feeVars, voiceVars>>

\* calendar_tools.py 99-126: one call of book_calendar_event
BookCalendarEvent ==
    /\ Len(bookLog) < MaxBookings
    /\ \E c \in Callers, slot \in BookableSlots, gw \in Gateway :
       \E link \in IF gw = "ok" THEN ProviderLinks ELSE {""} :
         LET r == RequestOf(c, slot)
             body == BookBody(r)
             created == Created(events, body, link, c)
             inserts == gw = "ok"
         IN  /\ events' = IF inserts THEN Append(events, created) ELSE events
             /\ bookLog' = Append(bookLog,
                   [op |-> "book_calendar_event", by |-> c, req |-> r,
                    sawFree |-> r.start \in seen[c].free,
                    gateway |-> gw, queries |-> 0, inserted |-> inserts,
                    event_id |-> IF inserts THEN created.id ELSE NoId,
                    link |-> link, out |-> BookResult(r, gw, created)])
    /\ UNCHANGED <<mailLog, seen>>
    /\ UNCHANGED <<chatVars, availVars, feeVars, voiceVars>>

(***************************************************************************)
(* estimate_fee.  A string is the tuple of its characters; a percentage is *)
(* held in tenths (1005 is 100.5), which is exact for a one-decimal value. *)
(***************************************************************************)
\* 324-330
SLIDING_ROWS ==
    << [tier |-> "A", min_pct |-> 0,   max_pct |-> 100],
       [tier |-> "B", min_pct |-> 101, max_pct |-> 125],
       [tier |-> "C", min_pct |-> 126, max_pct |-> 150],
       [tier |-> "D", min_pct |-> 151, max_pct |-> 175],
       [tier |-> "E", min_pct |-> 176, max_pct |-> 200] >>

\* 333-383: the keys of FEE_TABLE in the order of the dict display, which is
\* the order `for k in FEE_TABLE` visits them (the en dash of line 360 is
\* written as a hyphen)
FEE_KEYS ==
    <<
      <<"U", "P", "F", "H", " ", "M", "e", "d", "i", "c", "a", "l", " ", "F", "e", "e">>,   \* 334
      <<"U", "P", "F", "H", " ", "C", "o", "u", "n", "s", "e", "l", "i", "n", "g">>,   \* 335
      <<"U", "P", "F", "H", " ", "G", "r", "o", "u", "p", " ", "C", "o", "u", "n", "s", "e", "l", "i", "n", "g">>,   \* 336
      <<"U", "P", "F", "H", " ", "P", "s", "y", "c", "h", "i", "a", "t", "r", "i", "c", " ", "S", "e", "r", "v", "i", "c", "e", "s">>,   \* 337
      <<"M", "O", "B", "I", "L", "E", " ", "M", "e", "d", "i", "c", "a", "l">>,   \* 338
      <<"I", "n", "h", "o", "u", "s", "e", " ", "V", "i", "s", "i", "o", "n", " ", "E", "x", "a", "m">>,   \* 339
      <<"R", "e", "p", "l", "a", "c", "e", "m", "e", "n", "t", " ", "G", "l", "a", "s", "s", "e", "s">>,   \* 340
      <<"M", "O", "B", "I", "L", "E", " ", "E", "Y", "E", " ", "E", "x", "a", "m">>,   \* 341
      <<"M", "O", "B", "I", "L", "E", " ", "E", "Y", "E", " ", "-", " ", "S", "i", "n", "g", "l", "e", " ", "L", "e", "n", "s", " ", "G", "l", "a", "s", "s", "e", "s">>,   \* 342
      <<"M", "O", "B", "I", "L", "E", " ", "E", "Y", "E", " ", "-", " ", "B", "i", "f", "o", "c", "a", "l", " ", "L", "e", "n", "s", " ", "G", "l", "a", "s", "s", "e", "s">>,   \* 343
      <<"M", "V", "H", "C", " ", "P", "h", "a", "r", "m", "a", "c", "y", " ", "F", "i", "l", "l", " ", "F", "e", "e">>,   \* 344
      <<"M", "A", " ", "V", "i", "s", "i", "t", " ", "-", " ", "L", "a", "b", "s", " ", "o", "u", "t", "s", "i", "d", "e", " ", "o", "f", " ", "7", " ", "d", "a", "y", " ", "g", "l", "o", "b", "a", "l">>,   \* 345
      <<"M", "A", " ", "V", "i", "s", "i", "t", " ", "-", " ", "V", "A", "C", "C", "I", "N", "E", "S">>,   \* 346
      <<"N", "u", "v", "a", "r", "i", "n", "g">>,   \* 347
      <<"S", "p", "r", "i", "n", "t", "e", "c">>,   \* 348
      <<"L", "o", "e", "s", "t", "r", "i", "n">>,   \* 349
      <<"E", "l", "l", "a">>,   \* 350
      <<"D", "e", "p", "o", "-", "P", "r", "o", "v", "e", "r", "a">>,   \* 351
      <<"N", "e", "x", "p", "l", "a", "n", "o", "n">>,   \* 352
      <<"M", "i", "r", "e", "n", "a">>,   \* 353
      <<"L", "i", "l", "e", "t", "t", "a">>,   \* 354
      <<"P", "a", "r", "a", "g", "a", "r", "d", " ", "(", "l", "i", "m", "i", "t", "e", "d", " ", "s", "u", "p", "p", "l", "y", ")">>,   \* 355
      <<"I", "U", "D", " ", "R", "e", "m", "o", "v", "a", "l", " ", "F", "e", "e">>,   \* 356
      <<"I", "m", "p", "l", "a", "n", "o", "n", " ", "R", "e", "m", "o", "v", "a", "l">>,   \* 357
      <<"V", "a", "c", "c", "i", "n", "e", " ", "A", "d", "m", "i", "n", "i", "s", "t", "r", "a", "t", "i", "o", "n", " ", "F", "e", "e">>,   \* 358
      <<"S", "T", "D", " ", "T", "e", "s", "t", "i", "n", "g", " ", "P", "L", "U", "S", " ", "O", "F", "F", "I", "C", "E", " ", "V", "I", "S", "I", "T">>,   \* 359
      <<"S", "t", "e", "r", "o", "i", "d", " ", "I", "n", "j", "e", "c", "t", "i", "o", "n", " ", "-", " ", "K", "e", "n", "a", "l", "o", "g", " ", "P", "L", "U", "S", " ", "O", "F", "F", "I", "C", "E", " ", "V", "I", "S", "I", "T">>,   \* 360
      <<"H", "e", "p", " ", "A">>,   \* 361
      <<"H", "e", "p", " ", "B">>,   \* 362
      <<"H", "I", "B">>,   \* 363
      <<"H", "P", "V">>,   \* 364
      <<"I", "n", "f", "l", "u", "e", "n", "z", "a", "/", "F", "l", "u">>,   \* 365
      <<"C", "h", "i", "l", "d", " ", "F", "l", "u">>,   \* 366
      <<"P", "n", "e", "u", "m", "o", "v", "a", "x">>,   \* 367
      <<"P", "r", "e", "v", "n", "a", "r", " ", "1", "3">>,   \* 368
      <<"A", "d", "u", "l", "t", " ", "M", "e", "n", "a", "c", "t", "r", "a">>,   \* 369
      <<"M", "M", "R">>,   \* 370
      <<"T", "D", "-", "T", "e", "t", "a", "n", "u", "s">>,   \* 371
      <<"A", "d", "u", "l", "t", " ", "T", "D", "A", "P", " ", "(", "B", "o", "o", "s", "t", "r", "i", "x", ")">>,   \* 372
      <<"P", "o", "l", "i", "o", "/", "I", "P", "V">>,   \* 373
      <<"T", "B">>,   \* 374
      <<"A", "d", "u", "l", "t", " ", "V", "a", "r", "i", "c", "e", "l", "l", "a">>,   \* 375
      <<"B", "-", "1", "2">>,   \* 376
      <<"W", "e", "d", "g", "e", " ", "T", "o", "e", "n", "a", "i", "l", " ", "R", "e", "m", "o", "v", "a", "l", " ", "(", "G", "l", "o", "b", "a", "l", " ", "1", "0", " ", "d", "a", "y", "s", ")">>,   \* 377
      <<"T", "o", "e", "n", "a", "i", "l", " ", "R", "e", "m", "o", "v", "a", "l">>,   \* 378
      <<"E", "n", "d", "o", "m", "e", "t", "r", "i", "a", "l", " ", "B", "i", "o", "p", "s", "y", " ", "(", "S", "a", "m", "e", " ", "D", "a", "y", " ", "A", "d", "d", "-", "o", "n", ")">>,   \* 379
      <<"E", "n", "d", "o", "m", "e", "t", "r", "i", "a", "l", " ", "B", "i", "o", "p", "s", "y", " ", "(", "F", "o", "l", "l", "o", "w", "-", "u", "p", " ", "v", "i", "s", "i", "t", ")">>,   \* 380
      <<"E", "a", "r", " ", "L", "a", "v", "a", "g", "e">>,   \* 381
      <<"P", "T", "/", "I", "N", "R", " ", "(", "o", "u", "t", "s", "i", "d", "e", " ", "1", "4", "-", "d", "a", "y", " ", "w", "i", "n", "d", "o", "w", ")">>    \* 382
    >>

\* an amount in dollars, and the value of every row's "F" entry
Amount(n) == <<"usd", n>>
FullCharge == <<"F", "u", "l", "l", " ", "c", "h", "a", "r", "g", "e">>

\* 333-383: the values of FEE_TABLE, in the order of FEE_KEYS
FEE_ROWS ==
    <<
      [A |-> Amount(35), B |-> Amount(45), C |-> Amount(60), D |-> Amount(70), E |-> Amount(80), F |-> FullCharge],
      [A |-> Amount(20), B |-> Amount(25), C |-> Amount(35), D |-> Amount(40), E |-> Amount(50), F |-> FullCharge],
      [A |-> Amount(10), B |-> Amount(15), C |-> Amount(20), D |-> Amount(25), E |-> Amount(30), F |-> FullCharge],
      [A |-> Amount(40), B |-> Amount(50), C |-> Amount(60), D |-> Amount(70), E |-> Amount(80), F |-> FullCharge],
      [A |-> Amount(35), B |-> Amount(45), C |-> Amount(60), D |-> Amount(70), E |-> Amount(80), F |-> FullCharge],
      [A |-> Amount(20), B |-> Amount(30), C |-> Amount(40), D |-> Amount(50), E |-> Amount(70), F |-> FullCharge],
      [A |-> Amount(5), B |-> Amount(8), C |-> Amount(11), D |-> Amount(14), E |-> Amount(17), F |-> FullCharge],
      [A |-> Amount(5), B |-> Amount(7), C |-> Amount(8), D |-> Amount(10), E |-> Amount(15), F |-> FullCharge],
      [A |-> Amount(20), B |-> Amount(30), C |-> Amount(40), D |-> Amount(50), E |-> Amount(60), F |-> FullCharge],
      [A |-> Amount(30), B |-> Amount(35), C |-> Amount(45), D |-> Amount(55), E |-> Amount(65), F |-> FullCharge],
      [A |-> Amount(3), B |-> Amount(5), C |-> Amount(7), D |-> Amount(8), E |-> Amount(9), F |-> FullCharge],
      [A |-> Amount(20), B |-> Amount(25), C |-> Amount(30), D |-> Amount(30), E |-> Amount(35), F |-> FullCharge],
      [A |-> Amount(20), B |-> Amount(20), C |-> Amount(20), D |-> Amount(20), E |-> Amount(20), F |-> FullCharge],
      [A |-> Amount(5), B |-> Amount(6), C |-> Amount(7), D |-> Amount(8), E |-> Amount(30), F |-> FullCharge],
      [A |-> Amount(10), B |-> Amount(11), C |-> Amount(15), D |-> Amount(20), E |-> Amount(25), F |-> FullCharge],
      [A |-> Amount(10), B |-> Amount(11), C |-> Amount(20), D |-> Amount(25), E |-> Amount(30), F |-> FullCharge],
      [A |-> Amount(10), B |-> Amount(11), C |-> Amount(25), D |-> Amount(30), E |-> Amount(35), F |-> FullCharge],
      [A |-> Amount(15), B |-> Amount(20), C |-> Amount(25), D |-> Amount(30), E |-> Amount(35), F |-> FullCharge],
      [A |-> Amount(50), B |-> Amount(60), C |-> Amount(100), D |-> Amount(125), E |-> Amount(150), F |-> FullCharge],
      [A |-> Amount(75), B |-> Amount(85), C |-> Amount(150), D |-> Amount(175), E |-> Amount(200), F |-> FullCharge],
      [A |-> Amount(75), B |-> Amount(85), C |-> Amount(150), D |-> Amount(175), E |-> Amount(200), F |-> FullCharge],
      [A |-> Amount(75), B |-> Amount(85), C |-> Amount(150), D |-> Amount(175), E |-> Amount(200), F |-> FullCharge],
      [A |-> Amount(35), B |-> Amount(45), C |-> Amount(50), D |-> Amount(55), E |-> Amount(60), F |-> FullCharge],
      [A |-> Amount(35), B |-> Amount(45), C |-> Amount(50), D |-> Amount(55), E |-> Amount(60), F |-> FullCharge],
      [A |-> Amount(0), B |-> Amount(3), C |-> Amount(4), D |-> Amount(5), E |-> Amount(5), F |-> FullCharge],
      [A |-> Amount(85), B |-> Amount(86), C |-> Amount(87), D |-> Amount(88), E |-> Amount(89), F |-> FullCharge],
      [A |-> Amount(20), B |-> Amount(25), C |-> Amount(30), D |-> Amount(35), E |-> Amount(40), F |-> FullCharge],
      [A |-> Amount(45), B |-> Amount(46), C |-> Amount(47), D |-> Amount(48), E |-> Amount(49), F |-> FullCharge],
      [A |-> Amount(50), B |-> Amount(51), C |-> Amount(52), D |-> Amount(53), E |-> Amount(54), F |-> FullCharge],
      [A |-> Amount(30), B |-> Amount(31), C |-> Amount(32), D |-> Amount(33), E |-> Amount(34), F |-> FullCharge],
      [A |-> Amount(330), B |-> Amount(335), C |-> Amount(335), D |-> Amount(335), E |-> Amount(335), F |-> FullCharge],
      [A |-> Amount(18), B |-> Amount(19), C |-> Amount(20), D |-> Amount(21), E |-> Amount(22), F |-> FullCharge],
      [A |-> Amount(18), B |-> Amount(19), C |-> Amount(20), D |-> Amount(21), E |-> Amount(22), F |-> FullCharge],
      [A |-> Amount(106), B |-> Amount(107), C |-> Amount(108), D |-> Amount(109), E |-> Amount(110), F |-> FullCharge],
      [A |-> Amount(190), B |-> Amount(191), C |-> Amount(192), D |-> Amount(193), E |-> Amount(194), F |-> FullCharge],
      [A |-> Amount(120), B |-> Amount(121), C |-> Amount(122), D |-> Amount(123), E |-> Amount(124), F |-> FullCharge],
      [A |-> Amount(75), B |-> Amount(76), C |-> Amount(77), D |-> Amount(78), E |-> Amount(79), F |-> FullCharge],
      [A |-> Amount(35), B |-> Amount(36), C |-> Amount(37), D |-> Amount(38), E |-> Amount(39), F |-> FullCharge],
      [A |-> Amount(52), B |-> Amount(53), C |-> Amount(54), D |-> Amount(55), E |-> Amount(56), F |-> FullCharge],
      [A |-> Amount(35), B |-> Amount(36), C |-> Amount(37), D |-> Amount(38), E |-> Amount(39), F |-> FullCharge],
      [A |-> Amount(10), B |-> Amount(11), C |-> Amount(12), D |-> Amount(13), E |-> Amount(14), F |-> FullCharge],
      [A |-> Amount(130), B |-> Amount(131), C |-> Amount(132), D |-> Amount(133), E |-> Amount(134), F |-> FullCharge],
      [A |-> Amount(15), B |-> Amount(16), C |-> Amount(17), D |-> Amount(18), E |-> Amount(20), F |-> FullCharge],
      [A |-> Amount(75), B |-> Amount(80), C |-> Amount(85), D |-> Amount(90), E |-> Amount(95), F |-> FullCharge],
      [A |-> Amount(100), B |-> Amount(105), C |-> Amount(110), D |-> Amount(115), E |-> Amount(120), F |-> FullCharge],
      [A |-> Amount(105), B |-> Amount(110), C |-> Amount(115), D |-> Amount(115), E |-> Amount(115), F |-> FullCharge],
      [A |-> Amount(35), B |-> Amount(45), C |-> Amount(60), D |-> Amount(70), E |-> Amount(80), F |-> FullCharge],
      [A |-> Amount(10), B |-> Amount(11), C |-> Amount(12), D |-> Amount(13), E |-> Amount(14), F |-> FullCharge],
      [A |-> Amount(15), B |-> Amount(16), C |-> Amount(17), D |-> Amount(18), E |-> Amount(20), F |-> FullCharge]
    >>

FPL_BASE == 15060   \* 386
FPL_STEP == 5380    \* 386

\* str.lower and str.upper on the letters A-Z; other characters stay
UpperLetters ==
    <<"A", "B", "C", "D", "E", "F", "G", "H", "I", "J", "K", "L", "M",
      "N", "O", "P", "Q", "R", "S", "T", "U", "V", "W", "X", "Y", "Z">>
LowerLetters ==
    <<"a", "b", "c", "d", "e", "f", "g", "h", "i", "j", "k", "l", "m",
      "n", "o", "p", "q", "r", "s", "t", "u", "v", "w", "x", "y", "z">>
LowerChar(c) ==
    IF \E i \in 1..Len(UpperLetters) : UpperLetters[i] = c
    THEN LowerLetters[CHOOSE i \in 1..Len(UpperLetters) : UpperLetters[i] = c]
    ELSE c
UpperChar(c) ==
    IF \E i \in 1..Len(LowerLetters) : LowerLetters[i] = c
    THEN UpperLetters[CHOOSE i \in 1..Len(LowerLetters) : LowerLetters[i] = c]
    ELSE c
Lower(s) == [i \in 1..Len(s) |-> LowerChar(s[i])]
Upper(s) == [i \in 1..Len(s) |-> UpperChar(s[i])]

\* str.strip: leading and trailing blanks removed
Blank(c) == c = " "
Strip(s) ==
    LET inked == { i \in 1..Len(s) : ~Blank(s[i]) }
    IN  IF inked = {} THEN <<>>
        ELSE SubSeq(s, CHOOSE i \in inked : \A j \in inked : i <= j,
                       CHOOSE i \in inked : \A j \in inked : j <= i)

\* `t in k` on strings
Contains(t, k) ==
    \E i \in 0..(Len(k) - Len(t)) : SubSeq(k, i + 1, i + Len(t)) = t

LOWER_KEYS == [i \in 1..Len(FEE_KEYS) |-> Lower(FEE_KEYS[i])]

\* 393: the test of one key
KeyHit(t, i) == t = LOWER_KEYS[i] \/ Contains(t, LOWER_KEYS[i])

\* 392-393: the loop over FEE_TABLE returns the first key that passes the test;
\* 0 when no key does
RECURSIVE FirstHit(_, _)
FirstHit(t, i) ==
    IF i > Len(FEE_KEYS) THEN 0
    ELSE IF KeyHit(t, i) THEN i
    ELSE FirstHit(t, i + 1)

NoKey == <<>>     \* None

\* 389-395: _norm_proc, as the set of values it may return.  The similarity
\* ranking of difflib.get_close_matches (394-395) is not modelled: when the
\* loop finds nothing, any key of the table or None may come back.
NormProc(raw) ==
    LET t == Lower(Strip(raw)) IN
    IF t = <<>> THEN {NoKey}
    ELSE IF FirstHit(t, 1) # 0 THEN {FEE_KEYS[FirstHit(t, 1)]}
    ELSE {NoKey} \cup { FEE_KEYS[i] : i \in 1..Len(FEE_KEYS) }

\* 398: round(x, 1) of x = 100 * num / den, in tenths, as the set of values it
\* may give: the nearest tenth; when x lies exactly between two tenths the
\* result depends on the binary representation of x, so either may come back
\* (faulty variant: the decimals past the first are cut off)
TruncTenths(num, den) == { (1000 * num) \div den }
RoundTenths(num, den) ==
    LET q == (1000 * num) \div den
        r == (1000 * num) % den
    IN  IF 2 * r < den THEN {q}
        ELSE IF 2 * r > den THEN {q + 1}
        ELSE {q, q + 1}

\* 385-387 and 398: the rounded poverty percentage, in tenths
PovertyPercent(income, family_size) ==
    RoundTenths(income, FPL_BASE + (family_size - 1) * FPL_STEP)

\* 399: the first row whose band holds pct (in tenths), "F" when none does
InBand(pct, i) ==
    /\ SLIDING_ROWS[i].min_pct * 10 <= pct
    /\ pct <= SLIDING_ROWS[i].max_pct * 10
TierOf(pct) ==
    LET rows == { i \in 1..Len(SLIDING_ROWS) : InBand(pct, i) }
    IN  IF rows = {} THEN "F"
        ELSE SLIDING_ROWS[CHOOSE i \in rows : \A j \in rows : i <= j].tier

\* 401: FEE_TABLE.get(key, {}).get(tier, "Full charge")
FeeOf(key, tier) ==
    IF \E i \in 1..Len(FEE_KEYS) : FEE_KEYS[i] = key
    THEN FEE_ROWS[CHOOSE i \in 1..Len(FEE_KEYS) : FEE_KEYS[i] = key][tier]
    ELSE FullCharge

\* 397-403: the quote for one resolution of the procedure and one rounding
FeeQuote(income, family_size, procedure, key, pct) ==
    [status |-> "ok",
     procedure |-> IF key # NoKey THEN key ELSE procedure,
     tier |-> TierOf(pct),
     poverty_percent |-> pct,
     estimated_fee |-> FeeOf(key, TierOf(pct))]

(***************************************************************************)
(* Inputs of the fee model.                                                *)
(***************************************************************************)
MaxTenth == 2010    \* the sweep of incomes reaches 201.0 percent

OFFICE_VISIT == <<"O", "f", "f", "i", "c", "e", " ", "V", "i", "s", "i", "t">>   \* 397
FeeArgs(income, family_size, procedure) ==
    [income |-> income, family_size |-> family_size, procedure |-> procedure]

\* for a household of one, an income for every tenth of a percent
SweepIncomes == { (t * FPL_BASE + 500) \div 1000 : t \in 0..MaxTenth }
\* the incomes at and around the band edges
EdgeIncomes == {0, 15060, 15067, 15068, 15136, 18825, 30120, 30121, 30127, 30128, 45180}
FamilySizes == {1, 2, 3}

\* a catalogue name as a caller may type it
Padded(k) == <<" ", " ">> \o Upper(k) \o <<" ">>
Terms ==
    { FEE_KEYS[i] : i \in 1..Len(FEE_KEYS) }
    \cup { Padded(FEE_KEYS[i]) : i \in 1..Len(FEE_KEYS) }
    \cup { Lower(FEE_KEYS[i]) : i \in 1..Len(FEE_KEYS) }
    \cup { OFFICE_VISIT, <<>>, <<" ">>, <<"f", "l", "u">>, <<"t", "o", "e", "n", "a", "i", "l">>,
           <<"x", "-", "r", "a", "y">> }

FeeRequests ==
    { FeeArgs(inc, 1, FEE_KEYS[1]) : inc \in SweepIncomes }
    \cup { FeeArgs(inc, n, p) : inc \in EdgeIncomes, n \in FamilySizes,
                               p \in {FEE_KEYS[1], OFFICE_VISIT} }
    \cup { FeeArgs(FPL_BASE, 1, p) : p \in Terms }

NoFeeArgs == FeeArgs(0, 1, <<>>)
NoFeeOut ==
    [status |-> "none", procedure |-> <<>>, tier |-> "", poverty_percent |-> 0,
     estimated_fee |-> FullCharge]

InitFee ==
    /\ feeIn = NoFeeArgs
    /\ feeOut = NoFeeOut

\* 397-403: one call of estimate_fee
EstimateFee ==
    /\ feeOut.status = "none"
    /\ \E a \in FeeRequests :
       \E key \in NormProc(a.procedure), pct \in PovertyPercent(a.income, a.family_size) :
         /\ feeIn' = a
         /\ feeOut' = FeeQuote(a.income, a.family_size, a.procedure, key, pct)
    /\ UNCHANGED <<chatVars, availVars, bookVars, voiceVars>>

(***************************************************************************)
(* The /voice route (backend/main.py).  A request is received (113-129),   *)
(* and when it carries speech it waits in chat() until the reply is there  *)
(* or chat() raises (130-131); requests of other calls may be received and *)
(* answered in between.                                                    *)
(***************************************************************************)
VOICE_SYSTEM_PROMPT == "VOICE_SYSTEM_PROMPT"
MaxTurns == 3       \* /voice requests in one run

\* the CallSid of a request ("": the form has none) and its SpeechResult
CallSids      == {"", "CA1", "CA2"}
SpeechResults == {"", "  ", "hola"}
\* 22-35: the languages with a locale and a welcome text
LOCALE_LANGS == {"en", "es"}
\* codes langdetect may give: one with a locale, one without
Langs == {"es", "de"}

\* 115: form.get("CallSid") or "x"
\* (faulty variant: every request is filed under the fallback key)
SessionKeyShared(callSid) == "x"
SessionKey(callSid) == IF callSid = "" THEN "x" ELSE callSid
\* the keys the map can hold
Sids == {"x", "CA1", "CA2"}

\* 116: (form.get("SpeechResult") or "").strip(), on SpeechResults
Utterance(speech) == IF speech = "  " THEN "" ELSE speech

\* 103-107: detect_lang; what langdetect makes of an utterance is not
\* modelled, any of its codes may come back ("en" also when it raises)
DetectLang(utter) == Langs

\* a key the map does not hold; lang = "" is a session without "lang"
NoSession == [exists |-> FALSE, history |-> <<>>, lang |-> ""]

\* 118-120: sessions.setdefault(sid, {"history": [system prompt]})
SetDefaultSession(ss, sid) ==
    IF ss[sid].exists THEN ss
    ELSE [ss EXCEPT ![sid] = [exists |-> TRUE,
                              history |-> <<Msg("system", VOICE_SYSTEM_PROMPT)>>,
                              lang |-> ""]]
\* 124, 127: sess.setdefault("lang", l)
\* (faulty variant: the language is assigned on every request)
SetDefaultLangOverwrites(sess, l) == [sess EXCEPT !.lang = l]
SetDefaultLang(sess, l) ==
    IF sess.lang = "" THEN [sess EXCEPT !.lang = l] ELSE sess

\* 130: [m for m in hist if m["role"] != "tool"], as chat() receives it
ChatHistory(hist) ==
    LET kept == SelectSeq(hist, LAMBDA m : m.role # "tool")
    IN  [i \in 1..Len(kept) |-> DictTurn(kept[i].role, kept[i].content)]

\* one request: `before` is the session's history when the request arrived
\* (after 118-120), `detected` what detect_lang gave for its utterance ("" when
\* it was not called), `transcript` the msgs of chat()'s round-1 call, `lang`
\* the language the response is spoken in
Turn(call, sid, utter, stage, before, detected, transcript, reply, lang) ==
    [call |-> call, sid |-> sid, utter |-> utter, stage |-> stage,
     before |-> before, detected |-> detected,
     transcript |-> transcript, reply |-> reply, lang |-> lang, overlapped |-> FALSE]

\* the requests waiting in chat() have seen another request arrive
Overlap(ts) ==
    [i \in 1..Len(ts) |->
        IF ts[i].stage = "chat" THEN [ts[i] EXCEPT !.overlapped = TRUE] ELSE ts[i]]

InitVoice ==
    /\ sessions = [s \in Sids |-> NoSession]
    /\ turns = <<>>
    /\ lastSid = ""

\* 113-125, 133-144: a request without speech is answered with the welcome of
\* the session's language; VOICE_WELCOME has no entry for other languages (125)
VoiceGreet ==
    /\ Len(turns) < MaxTurns
    /\ \E callSid \in CallSids, speech \in SpeechResults :
         LET sid  == SessionKey(callSid)
             ss   == SetDefaultSession(sessions, sid)
             sess == SetDefaultLang(ss[sid], "en")
         IN  /\ Utterance(speech) = ""
             /\ sessions' = [ss EXCEPT ![sid] = sess]
             /\ turns' = Append(Overlap(turns),
                   IF sess.lang \in LOCALE_LANGS
                   THEN Turn(callSid, sid, "", "done", ss[sid].history, "",
                             <<>>, "VOICE_WELCOME", sess.lang)
                   ELSE Turn(callSid, sid, "", "failed", ss[sid].history, "",
                             <<>>, "", sess.lang))
             /\ lastSid' = callSid
    /\ UNCHANGED <<chatVars, availVars, bookVars, feeVars>>

\* 113-130: a request with speech sets the language of a session that has
\* none, appends the utterance to the session's history and calls chat()
VoiceSpeak ==
    /\ Len(turns) < MaxTurns
    /\ \E callSid \in CallSids, speech \in SpeechResults :
         LET sid   == SessionKey(callSid)
             utter == Utterance(speech)
             ss    == SetDefaultSession(sessions, sid)
         IN  /\ utter # ""
             /\ \E l \in DetectLang(utter) :
                  LET sess == SetDefaultLang(ss[sid], l)
                      hist == Append(sess.history, Msg("user", utter))
                  IN  /\ sessions' = [ss EXCEPT ![sid] = [sess EXCEPT !.history = hist]]
                      /\ turns' = Append(Overlap(turns),
                            Turn(callSid, sid, utter, "chat", ss[sid].history, l,
                                 BuildTranscript(utter, ChatHistory(hist)), "", sess.lang))
             /\ lastSid' = callSid
    /\ UNCHANGED <<chatVars, availVars, bookVars, feeVars>>

\* 130-131, 133-144: chat() returns and the reply is appended to the history
\* the request appended its utterance to
VoiceReply ==
    /\ \E i \in 1..Len(turns), text \in Texts :
         /\ turns[i].stage = "chat"
         /\ sessions' = [sessions EXCEPT ![turns[i].sid].history =
                            Append(@, Msg("assistant", text))]
         /\ turns' = [turns EXCEPT ![i].stage = "done", ![i].reply = text]
         /\ lastSid' = turns[i].call
    /\ UNCHANGED <<chatVars, availVars, bookVars, feeVars>>

\* 130: chat() raises; the exception leaves voice() and nothing is appended
VoiceChatFails ==
    /\ \E i \in 1..Len(turns) :
         /\ turns[i].stage = "chat"
         /\ turns' = [turns EXCEPT ![i].stage = "failed"]
         /\ lastSid' = turns[i].call
    /\ UNCHANGED sessions
    /\ UNCHANGED <<chatVars, availVars, bookVars, feeVars>>

(***************************************************************************)
(* Specifications.                                                         *)
(***************************************************************************)
Init ==
    /\ InitChat
    /\ InitAvail
    /\ InitBook
    /\ InitFee
    /\ InitVoice
    /\ calendar = {}

Next ==
    \/ ChatStart
    \/ Round1Error
    \/ Round1Direct
    \/ Round1ToolCalls
    \/ HandleToolCall
    \/ Finalize
    \/ Round2Error
    \/ Round2Return

Spec == Init /\ [][Next]_vars

InitAvailability ==
    /\ InitChat
    /\ InitAvail
    /\ InitBook
    /\ InitFee
    /\ InitVoice
    /\ calendar \in Calendars

NextAvailability == CheckAvailability

SpecAvailability == InitAvailability /\ [][NextAvailability]_vars

NextSlots ==
    \/ CheckAvailability
    \/ AvailableSlots

SpecSlots == InitAvailability /\ [][NextSlots]_vars

InitBooking ==
    /\ InitChat
    /\ InitAvail
    /\ InitBook
    /\ InitFee
    /\ InitVoice
    /\ calendar \in BookingCalendars

NextBooking ==
    \/ CallerCheck
    \/ CreateCalendarEvent
    \/ BookCalendarEvent

SpecBooking == InitBooking /\ [][NextBooking]_vars

NextVoice ==
    \/ VoiceGreet
    \/ VoiceSpeak
    \/ VoiceReply
    \/ VoiceChatFails

SpecVoice == Init /\ [][NextVoice]_vars

NextFee == EstimateFee

SpecFee == Init /\ [][NextFee]_vars


(***************************************************************************)
(* Properties of the turn (specification Spec).                            *)
(***************************************************************************)
Terminal == pc \in {"ready", "failed"}

\* the call identifiers of a list of calls or of tool messages
CallIdsOf(calls) == [i \in 1..Len(calls) |-> calls[i].id]
ResultIdsOf(rs)  == [i \in 1..Len(rs) |-> rs[i].tool_call_id]
Prefix(a, b) == Len(a) <= Len(b) /\ \A i \in 1..Len(a) : a[i] = b[i]
KnownCalls(calls) == SelectSeq(calls, LAMBDA c : c.fn \in ToolNames)

\* C1: the number of model calls of a turn is fixed by round 1's finish
\* reason: "stop" ends the turn after exactly one call and returns that
\* response's text; "tool_calls" leads to exactly two calls, the second one
\* without the tool catalogue; there is never a third call, and a second one
\* only after "tool_calls".
C1_ModelCallsByFinishReason ==
    /\ Len(modelCalls) <= 2
    /\ \A i \in 1..Len(modelCalls) : modelCalls[i].round = i
    /\ Len(modelCalls) >= 1 => modelCalls[1].tools
    /\ finish1 = "stop" =>
          /\ Len(modelCalls) = 1
          /\ pc = "ready"
          /\ outcome = [kind |-> "text", val |-> asst.content]
    /\ (finish1 = "tool_calls" /\ Terminal) =>
          /\ Len(modelCalls) = 2
          /\ ~modelCalls[2].tools
    /\ Len(modelCalls) = 2 => finish1 = "tool_calls" /\ ~modelCalls[2].tools

\* a finished turn that went through a tool round of at least one call
C1_Witness ==
    /\ pc = "ready"
    /\ finish1 = "tool_calls"
    /\ Len(asst.tool_calls) >= 1
    /\ Len(modelCalls) = 2

\* C2: the N requested tool calls are processed in the order received (the
\* components are invoked in that order), each yields exactly one tool
\* message tagged with its own call identifier, and the follow-up model call
\* exists only once all N results do; its transcript is the round-1
\* transcript, then the assistant tool-call message, then the N results in
\* call order.
C2_ToolRoundFolded ==
    LET calls == asst.tool_calls IN
    /\ Prefix(ResultIdsOf(results), CallIdsOf(calls))
    /\ \A i \in 1..Len(results) : results[i].role = "tool"
    /\ [k \in 1..Len(invoked) |-> invoked[k].id]
          = CallIdsOf(KnownCalls(SubSeq(calls, 1, Len(results))))
    /\ Len(modelCalls) = 2 =>
          /\ Len(results) = Len(calls)
          /\ \A i \in 1..Len(calls) :
                Cardinality({ j \in 1..Len(results) :
                                results[j].tool_call_id = calls[i].id }) = 1
          /\ modelCalls[2].transcript = modelCalls[1].transcript \o <<asst>> \o results
          /\ msgs = modelCalls[2].transcript

\* two calls were requested, both are answered and the follow-up is out
C2_Witness ==
    /\ Len(asst.tool_calls) = 2
    /\ Len(results) = 2
    /\ Len(invoked) = 2
    /\ Len(modelCalls) = 2

\* C3: a failing tool call is contained.  A raising component and an unknown
\* tool name both become an error payload for that call; no component is
\* invoked for an unknown name; the calls after it are still processed; the
\* turn goes on to the follow-up model call, and it fails only when a model
\* call fails.
C3_ToolFailureContained ==
    LET calls == asst.tool_calls IN
    /\ \A i \in 1..Len(results) :
          /\ calls[i].fn \notin ToolNames =>
                /\ results[i].content = UnknownPayload
                /\ \A k \in 1..Len(invoked) : invoked[k].id # calls[i].id
          /\ \A k \in 1..Len(invoked) :
                (invoked[k].id = calls[i].id /\ invoked[k].raised)
                   => results[i].content = ErrorPayload
    /\ pc = "failed" => failedRound \in {1, 2}
    /\ (finish1 = "tool_calls" /\ pc \in {"round2", "ready", "failed"}) =>
          /\ Len(results) = Len(calls)
          /\ Len(modelCalls) = 2

\* the first call raised, the second names no tool, the follow-up is out
C3_Witness ==
    /\ Len(asst.tool_calls) = 2
    /\ Len(invoked) = 1
    /\ invoked[1].raised
    /\ invoked[1].id = asst.tool_calls[1].id
    /\ asst.tool_calls[2].fn \notin ToolNames
    /\ Len(results) = 2
    /\ pc = "round2"

\* C4: a call whose arguments are not valid JSON is dispatched with the empty
\* argument set and still yields exactly one result for its identifier; the
\* parse failure does not fail the turn.
C4_MalformedArgsAreEmpty ==
    LET calls == asst.tool_calls IN
    /\ \A i \in 1..Len(results) :
          calls[i].raw = "malformed" =>
             /\ Cardinality({ j \in 1..Len(results) :
                                results[j].tool_call_id = calls[i].id }) = 1
             /\ calls[i].fn \in ToolNames =>
                   \E k \in 1..Len(invoked) :
                      /\ invoked[k].id = calls[i].id
                      /\ invoked[k].args = "EMPTY"
    /\ (pc \in {"round2", "ready"} /\ finish1 = "tool_calls") =>
          \A i \in 1..Len(calls) :
             calls[i].raw = "malformed" => results[i].tool_call_id = calls[i].id
    /\ (pc = "failed" /\ \E i \in 1..Len(calls) : calls[i].raw = "malformed")
          => failedRound = 2

\* a malformed call of a known tool was dispatched and the turn completed
C4_Witness ==
    /\ pc = "ready"
    /\ \E i \in 1..Len(results) :
          /\ asst.tool_calls[i].raw = "malformed"
          /\ asst.tool_calls[i].fn \in ToolNames
          /\ \E k \in 1..Len(invoked) :
                invoked[k].id = asst.tool_calls[i].id /\ invoked[k].args = "EMPTY"

\* C5: a model call that fails, in round 1 or in round 2, ends the turn in
\* the Failed state with the error as the outcome of chat(); the failed call
\* is the last model call of the turn (no further call, no retry).
C5_ModelFailureIsFatal ==
    /\ failedRound # 0 =>
          /\ pc = "failed"
          /\ outcome.kind = "error"
          /\ Len(modelCalls) = failedRound
    /\ pc = "failed" => outcome.kind = "error" /\ failedRound # 0

\* the round-2 call failed after a tool round
C5_Witness ==
    /\ failedRound = 2
    /\ pc = "failed"
    /\ Len(results) >= 1


(***************************************************************************)
(* Properties of check_calendar_availability (SpecAvailability).           *)
(***************************************************************************)
Returned == availOut.status = "ok"
Rejected == availOut.status = "ValueError"

\* the slots returned for the day of fetch i (none when the day has no key)
SlotsOfFetch(i) ==
    LET d == fetchLog[i].day IN
    IF d \in DOMAIN availOut.free
    THEN { availOut.free[d][k] : k \in 1..Len(availOut.free[d]) }
    ELSE {}

\* the candidate starts of a day: window-start plus multiples of the scan
\* step, as long as start + duration <= window-end
Candidates(r) ==
    { c \in r.work_start..(r.work_end - r.duration_minutes) :
        (c - r.work_start) % ScanStep = 0 }

\* the candidates no busy interval overlaps (open-interval test)
FreeCandidates(r, busy) ==
    { c \in Candidates(r) :
        \A b \in busy : ~(b[1] < c + r.duration_minutes /\ c < b[2]) }

\* the n smallest elements of a set of numbers
Earliest(S, n) == { c \in S : Cardinality({ x \in S : x < c }) < n }

\* C6: no returned slot [s, s + duration) overlaps a busy interval (b0, b1)
\* of the busy list fetched for its day: NOT (b0 < s + duration AND s < b1).
\* Touching end points are no overlap.
C6_NoReturnedSlotOverlapsBusy ==
    Returned =>
       \A i \in 1..Len(fetchLog) :
          \A s \in SlotsOfFetch(i) :
             \A b \in fetchLog[i].busy :
                ~(b[1] < s + req.duration_minutes /\ s < b[2])

\* a returned slot ends exactly where a busy interval starts, another one
\* starts exactly where it ends, and some candidate of that day was dropped
C6_Witness ==
    /\ Returned
    /\ \E i \in 1..Len(fetchLog) :
          /\ \E s \in SlotsOfFetch(i), b \in fetchLog[i].busy :
                s + req.duration_minutes = b[1] /\ req.duration_minutes > 0
          /\ \E s \in SlotsOfFetch(i), b \in fetchLog[i].busy : s = b[2]
          /\ Candidates(req) \ FreeCandidates(req, fetchLog[i].busy) # {}

\* C7: for each day of the request the returned slots are exactly the 10
\* earliest free candidates (all of them when there are fewer), in
\* increasing order; a day without a free candidate has no key, and only
\* days of the request have one.
C7_EarliestTenPerDay ==
    Returned =>
       /\ DOMAIN availOut.free \subseteq { fetchLog[i].day : i \in 1..Len(fetchLog) }
       /\ \A i \in 1..Len(fetchLog) :
             LET d == fetchLog[i].day
                 F == FreeCandidates(req, fetchLog[i].busy)
             IN  /\ F = {} <=> d \notin DOMAIN availOut.free
                 /\ SlotsOfFetch(i) = Earliest(F, MaxSlotsPerDay)
                 /\ d \in DOMAIN availOut.free =>
                       /\ Len(availOut.free[d]) = Cardinality(SlotsOfFetch(i))
                       /\ \A k \in 1..(Len(availOut.free[d]) - 1) :
                             availOut.free[d][k] < availOut.free[d][k + 1]

\* one day with a busy interval has more than 10 free candidates and gets
\* 10 slots; another day has candidates, none of them free, and no key
C7_Witness ==
    /\ Returned
    /\ \E i \in 1..Len(fetchLog) :
          /\ Cardinality(FreeCandidates(req, fetchLog[i].busy)) > MaxSlotsPerDay
          /\ Cardinality(SlotsOfFetch(i)) = MaxSlotsPerDay
          /\ fetchLog[i].busy # {}
    /\ \E i \in 1..Len(fetchLog) :
          /\ fetchLog[i].day \notin DOMAIN availOut.free
          /\ Candidates(req) # {}

\* C8: whatever duration_minutes the request carries (none is rejected, zero
\* and negative ones included), every returned slot start s satisfies
\* window-start <= s and s + duration <= window-end.
C8_SlotsInsideWindow ==
    Returned =>
       \A i \in 1..Len(fetchLog) :
          \A s \in SlotsOfFetch(i) :
             /\ req.work_start <= s
             /\ s + req.duration_minutes <= req.work_end

\* the last slot that fits is returned: it ends exactly at window-end
C8_Witness ==
    /\ Returned
    /\ req.duration_minutes > 0
    /\ \E i \in 1..Len(fetchLog) :
          \E s \in SlotsOfFetch(i) :
             s + req.duration_minutes = req.work_end /\ s > req.work_start

\* an argument counts as supplied when it is a non-empty string (146-148
\* test the arguments' truth values)
Supplied(x) == x.k = "day"

\* C9: a request that supplies a date together with a range bound, supplies
\* none of the three, or supplies only one of start_date / end_date is
\* rejected with ValueError before any calendar query, and returns nothing.
C9_BadShapeRejectedBeforeFetch ==
    LET d == Supplied(req.date)
        s == Supplied(req.start_date)
        e == Supplied(req.end_date)
    IN  (availOut.status # "none"
         /\ ((d /\ (s \/ e)) \/ (~d /\ ~s /\ ~e) \/ (s /\ ~e) \/ (e /\ ~s)))
        => /\ Rejected
           /\ fetchLog = <<>>
           /\ availOut.free = <<>>

\* a request with a date and both range bounds was rejected
C9_Witness ==
    /\ Rejected
    /\ Supplied(req.date)
    /\ Supplied(req.start_date)
    /\ Supplied(req.end_date)
    /\ fetchLog = <<>>

\* C10: a range request with end_date before start_date, or 31 or more days
\* after it, is rejected with the range error and queries nothing; with
\* end_date 0 to 30 days after start_date it passes validation (a successful
\* call then queries every day of the range).
C10_RangeLimit ==
    (availOut.status # "none" /\ ~Supplied(req.date)
     /\ Supplied(req.start_date) /\ Supplied(req.end_date))
    => LET diff == req.end_date.d - req.start_date.d IN
       /\ (diff < 0 \/ diff >= MaxRangeDays + 1) =>
             /\ Rejected
             /\ availOut.error = "Bad date range (max 30 days)."
             /\ fetchLog = <<>>
       /\ (0 <= diff /\ diff <= MaxRangeDays) =>
             /\ ~Rejected
             /\ Returned => Len(fetchLog) = diff + 1

\* a range of exactly 30 days was answered
C10_Witness ==
    /\ Returned
    /\ ~Supplied(req.date)
    /\ req.end_date.d - req.start_date.d = MaxRangeDays
    /\ Len(fetchLog) = MaxRangeDays + 1

(***************************************************************************)
(* Booking: frame of the availability check, results of the booking calls. *)
(***************************************************************************)
\* the days a validated request names, earliest first
ExpectedDays(r) ==
    IF Truthy(r.date) THEN <<r.date.d>>
    ELSE [i \in 1..(r.end_date.d - r.start_date.d + 1) |-> r.start_date.d + i - 1]

\* C11: a check_calendar_availability call that returns has queried the busy
\* intervals of exactly the days of the request, once each and in day order,
\* every query answered; the step leaves the calendar's intervals, the inserted
\* events and the mailbox as they were.
C11_ReadOnlyFetchPerDay ==
    [][ (availOut.status = "none" /\ availOut'.status = "ok") =>
          /\ [i \in 1..Len(fetchLog') |-> fetchLog'[i].day] = ExpectedDays(req')
          /\ \A i \in 1..Len(fetchLog') : fetchLog'[i].ok
          /\ calendar' = calendar
          /\ events' = events
          /\ mailLog' = mailLog ]_vars
\* a returned range request over several days, on a calendar that holds intervals
C11_Witness ==
    /\ availOut.status = "ok"
    /\ Len(fetchLog) >= 2
    /\ calendar # {}
    /\ events = <<>> /\ mailLog = <<>>

CreateCalls == { i \in 1..Len(bookLog) : bookLog[i].op = "create_calendar_event" }

\* C12: whenever the insert of a create_calendar_event call succeeds, the call
\* returns a confirmation with status "booked", the provider-issued event id,
\* the requested start and end, and the patient's name, email, phone, reason.
C12_InsertYieldsConfirmation ==
    \A i \in CreateCalls :
        LET b == bookLog[i] IN
        b.inserted =>
            /\ b.out.kind = "return"
            /\ b.out.value.status = "booked"
            /\ b.out.value.event_id = b.event_id
            /\ b.out.value.start = b.req.start
            /\ b.out.value.end = b.req.end
            /\ b.out.value.patient_name = b.req.patient_name
            /\ b.out.value.email = b.req.email
            /\ b.out.value.phone = b.req.phone
            /\ b.out.value.reason = b.req.reason

\* C13: no value returned by a booking operation (create_calendar_event,
\* book_calendar_event) has the provider's web link field htmlLink, whatever
\* the insert response contains.
C13_NoWebLinkReturned ==
    \A i \in 1..Len(bookLog) :
        bookLog[i].out.kind = "return" => "htmlLink" \notin DOMAIN bookLog[i].out.value

\* C14: create_calendar_event issues no freebusy query, and an insert the
\* calendar accepts persists the event whether or not the slot is still free;
\* so the event of every accepted call is in the calendar.
C14_NoRecheckBeforeInsert ==
    \A i \in CreateCalls :
        LET b == bookLog[i] IN
        /\ b.queries = 0
        /\ b.gateway = "ok" =>
              /\ b.inserted
              /\ \E j \in 1..Len(events) :
                    /\ events[j].id = b.event_id
                    /\ events[j].start = b.req.start
                    /\ events[j].end = b.req.end
\* two callers who both saw the slot free have each had an event inserted for it
C14_Witness ==
    \E i, j \in CreateCalls :
        /\ i < j
        /\ bookLog[i].by # bookLog[j].by
        /\ bookLog[i].sawFree /\ bookLog[j].sawFree
        /\ bookLog[i].inserted /\ bookLog[j].inserted
        /\ bookLog[i].req.start = bookLog[j].req.start
        /\ bookLog[i].req.end = bookLog[j].req.end
        /\ \E m, n \in 1..Len(events) :
              /\ m # n
              /\ events[m].id = bookLog[i].event_id
              /\ events[n].id = bookLog[j].event_id

\* the events the calendar holds for request r through create_calendar_event
HeldFor(r) ==
    { j \in 1..Len(events) :
        /\ events[j].start = r.start /\ events[j].end = r.end
        /\ events[j].summary = r.patient_name
        /\ \E i \in CreateCalls : bookLog[i].event_id = events[j].id }
\* the create_calendar_event calls for request r whose insert the calendar accepted
AcceptedFor(r) ==
    { i \in CreateCalls : bookLog[i].req = r /\ bookLog[i].gateway = "ok" }

\* C15 (as claimed): booking is idempotent: however often create_calendar_event
\* was invoked with one request, the calendar holds at most one event for it.
C15_BookingIdempotent ==
    \A i \in CreateCalls : Cardinality(HeldFor(bookLog[i].req)) <= 1
\* C15 (amended): booking is not idempotent: every create_calendar_event call
\* whose insert the calendar accepts adds one more event under an id of its
\* own, so the calendar holds as many events for a request as there were
\* accepted calls with it.
C15_EachAcceptedCallAddsAnEvent ==
    \A i \in CreateCalls :
        LET r == bookLog[i].req IN
        /\ Cardinality(HeldFor(r)) = Cardinality(AcceptedFor(r))
        /\ \A m, n \in HeldFor(r) : m # n => events[m].id # events[n].id
\* the same request was accepted twice and the calendar holds two events for it
C15_Witness ==
    \E i, j \in CreateCalls :
        /\ i < j
        /\ bookLog[i].req = bookLog[j].req
        /\ bookLog[i].gateway = "ok" /\ bookLog[j].gateway = "ok"
        /\ Cardinality(HeldFor(bookLog[i].req)) = 2

(***************************************************************************)
(* The fee quote.                                                          *)
(***************************************************************************)
\* pct (in tenths) is 100 * income / base rounded to one decimal: no tenth is
\* nearer to the exact quotient
NearestTenth(pct, income, base) ==
    /\ 2 * (1000 * income - pct * base) <= base
    /\ 2 * (pct * base - 1000 * income) <= base

TierRank(tier) ==
    CHOOSE i \in 1..6 : <<"A", "B", "C", "D", "E", "F">>[i] = tier

\* C17: tier F is assigned only when the one-decimal percentage is above 200:
\* a percentage from 0.0 to 200.0 gets one of the tiers A-E, and the tier of a
\* percentage is never of lower rank than the tier of the tenth below it.
C17_BandsCoverUpTo200 ==
    feeOut.status = "ok" =>
        /\ feeOut.tier = "F" => feeOut.poverty_percent > 2000
        /\ feeOut.poverty_percent <= 2000 => feeOut.tier \in {"A", "B", "C", "D", "E"}
        /\ feeOut.poverty_percent >= 1 =>
              TierRank(TierOf(feeOut.poverty_percent - 1)) <= TierRank(feeOut.tier)

\* C18: a term equal, ignoring case and surrounding blanks, to a catalogue
\* name resolves to that very procedure, also when the term is contained in
\* another catalogue name.
C18_ExactMatchPreferred ==
    feeOut.status = "ok" =>
        \A i \in 1..Len(FEE_KEYS) :
            Lower(Strip(feeIn.procedure)) = LOWER_KEYS[i] => feeOut.procedure = FEE_KEYS[i]

(***************************************************************************)
(* The /voice sessions.                                                    *)
(***************************************************************************)
\* the CallSid whose requests are filed under a key of the map ("": none)
OwnerOf(key) == IF key = "x" THEN "" ELSE key

\* C19: a step of a /voice request changes nothing of what the map holds for
\* the sessions of other calls -- neither history nor language -- and to the
\* history of its own session it only appends.
C19_TurnTouchesOwnSessionOnly ==
    [][ \A key \in Sids :
          /\ OwnerOf(key) # lastSid' => sessions'[key] = sessions[key]
          /\ Prefix(sessions[key].history, sessions'[key].history) ]_vars
\* a request of one call was answered after a request of another call had
\* arrived in between, and both sessions hold an exchange
C19_Witness ==
    \E i, j \in 1..Len(turns) :
        /\ turns[i].call # turns[j].call
        /\ turns[i].call # "" /\ turns[j].call # ""
        /\ turns[i].stage = "done" /\ turns[i].overlapped
        /\ turns[j].stage = "done"
        /\ Len(sessions[turns[i].call].history) >= 3
        /\ Len(sessions[turns[j].call].history) >= 3

(***************************************************************************)
(* What the language model is told about a booking.                        *)
(***************************************************************************)
\* C20: whenever the result of a create_calendar_event tool call is an error
\* payload, the calendar holds no event inserted by that call.
C20_FailedBookingPersistsNothing ==
    \A i \in 1..Len(results) :
        (/\ asst.tool_calls[i].fn = "create_calendar_event"
         /\ results[i].content = ErrorPayload)
        => ~ \E j \in 1..Len(events) : events[j].by = asst.tool_calls[i].id

(***************************************************************************)
(* The /voice transcript, history and language.                            *)
(***************************************************************************)
\* C21: in a /voice turn with a non-empty utterance the round-1 transcript
\* holds the earlier messages of the session and, after them, the new
\* utterance exactly once: one message follows the earlier ones, and it is the
\* utterance.
C21_UtteranceOnceAfterHistory ==
    \A i \in 1..Len(turns) :
        turns[i].utter # "" =>
            LET T == turns[i].transcript
                B == turns[i].before
                n == Len(T) - 1 - Len(B)
            IN  /\ n >= 0
                /\ SubSeq(T, n + 1, n + Len(B)) = B
                /\ T[Len(T)] = Msg("user", turns[i].utter)

\* the voice system prompt followed by (user, assistant) pairs
SystemThenPairs(h) ==
    /\ Len(h) >= 1
    /\ h[1] = Msg("system", VOICE_SYSTEM_PROMPT)
    /\ Len(h) % 2 = 1
    /\ \A k \in 2..Len(h) : h[k].role = IF k % 2 = 0 THEN "user" ELSE "assistant"

\* C22: while no /voice request is in progress, every session history is the
\* voice system prompt followed by zero or more (user, assistant) pairs in
\* strict alternation, also after turns in which chat() failed and after
\* requests without an utterance.
C22_HistoryAlternates ==
    (\A i \in 1..Len(turns) : turns[i].stage # "chat") =>
        \A key \in Sids : sessions[key].exists => SystemThenPairs(sessions[key].history)

\* the first request filed under a key
FirstTurn(key) ==
    CHOOSE i \in 1..Len(turns) :
        turns[i].sid = key /\ \A j \in 1..(i - 1) : turns[j].sid # key

\* C26: the language of a session is the one its first request gave it -- "en"
\* when that request had no utterance, else the language detected from its
\* utterance -- and every later request of the session is answered in that
\* language, whatever is detected from its utterance.
C26_LanguageFixedByFirstRequest ==
    \A key \in Sids :
        sessions[key].exists =>
            /\ sessions[key].lang =
                  IF turns[FirstTurn(key)].utter = "" THEN "en"
                  ELSE turns[FirstTurn(key)].detected
            /\ \A i \in 1..Len(turns) :
                  turns[i].sid = key => turns[i].lang = sessions[key].lang
\* a session whose first utterance was detected as "es" has since received an
\* utterance detected as "de" and is still "es"
C26_Witness ==
    \E i, j \in 1..Len(turns) :
        /\ i < j
        /\ turns[i].sid = turns[j].sid
        /\ i = FirstTurn(turns[i].sid)
        /\ turns[i].detected = "es" /\ turns[j].detected = "de"
        /\ turns[j].stage = "done"
        /\ sessions[turns[i].sid].lang = "es"

(***************************************************************************)
(* What "submitted" tells the language model about the e-mails.            *)
(***************************************************************************)
\* the e-mails a tool call handed to Gmail, in sending order
MailsOf(id) == SelectSeq(mailLog, LAMBDA m : m.by = id)

\* C23: a submit_appointment_request tool call whose result is
\* {"status": "submitted"} sent both confirmation e-mails, the patient copy
\* first and the staff alert second; a call that did not send both has an
\* error payload as its result.
C23_SubmittedMeansBothMailsSent ==
    \A i \in 1..Len(results) :
        asst.tool_calls[i].fn = "submit_appointment_request" =>
            LET id == asst.tool_calls[i].id IN
            /\ results[i].content = SubmittedPayload => MailsOf(id) = AppointmentMails(id)
            /\ MailsOf(id) # AppointmentMails(id) => results[i].content = ErrorPayload

(***************************************************************************)
(* The two availability implementations (specification SpecSlots).         *)
(***************************************************************************)
\* C24: a failed busy-interval fetch never makes a slot be reported free.  In
\* check_calendar_availability a failed query leaves the call raising, with no
\* per-day result; in available_slots a failed fetch gives an error or an
\* exception and no slot list.
C24_FailedFetchReportsNoSlot ==
    /\ (\E i \in 1..Len(fetchLog) : ~fetchLog[i].ok) =>
            availOut.status \notin {"none", "ok"} /\ availOut.free = <<>>
    /\ slotsOut.fetch \in {"HttpError", "raise"} =>
            slotsOut.status \in {"error", "raise"} /\ slotsOut.slots = <<>>

\* C25: for every 30-minute slot of the requested days, available_slots
\* leaves the slot out exactly when the open-interval test of
\* check_calendar_availability finds a busy interval overlapping it.
C25_SlotFiltersAgree ==
    (slotsOut.status = "ok" /\ slotsOut.fetch = "ok") =>
        \A d \in slotsReq.date_from..slotsReq.date_to :
            \A i \in 1..Len(DaySlots(d)) :
                LET s == DaySlots(d)[i] IN
                (\A k \in 1..Len(slotsOut.slots) : slotsOut.slots[k] # s)
                    <=> Overlaps(s[2], s[2] + SLOT, BusyOn(calendar, d))

====
